---- MODULE Spec2Model ----
(***************************************************************************)
(* A model of compare_gan/gans/clgan.py: the augmentation transforms       *)
(* (transform_image, random_crop_and_resize), the transform dispatchers    *)
(* (call, call_dynamic, call_maybe, augment) and CLGAN.create_loss.        *)
(*                                                                         *)
(* Tensors are modelled by what the claims need of them: an image by its   *)
(* shape <<h, w, c>>, a batch by the sequence of its rows, a random draw   *)
(* by a value in tenths (5 is 0.5).  Optional values (seed=None) are       *)
(* sequences: <<>> is None and <<n>> is the integer n.                     *)
(***************************************************************************)
EXTENDS Integers, Sequences, FiniteSets, TLC

VARIABLES
  \* ---- transform_image / random_crop_and_resize
  ti_pc,        \* "idle" | "returned" | "raised"
  graph_seed,   \* the graph-level random seed (tf.set_random_seed), <<>> = None
  ti_image,     \* static shape <<h, w, c>> of the input image
  ti_target,    \* target_image_shape <<th, tw, tc>>
  ti_method,    \* crop_method
  ti_seed,      \* seed argument
  ti_rnd,       \* the random draws of this call
  ti_res,       \* what the call did: status, shape, ops, graph_seed
  \* ---- call_dynamic / call_maybe / call / augment
  cd_pc,         \* "idle" | "returned"
  cd_transforms, \* the transforms argument
  cd_us,         \* the draw of every call_maybe operation, by its place
  cd_x,          \* the tensor x, as the sequence of the functions applied to it
  \* ---- CLGAN.create_loss
  cl_pc,         \* "idle" | "returned"
  cl_in,         \* features, augmentations drawn, discriminator, hyperparameters
  cl_graph,      \* the intermediate tensors create_loss builds
  d_loss,        \* self.d_loss (<<>> while unset)
  g_loss         \* self.g_loss (<<>> while unset)

ti_vars == <<ti_pc, graph_seed, ti_image, ti_target, ti_method, ti_seed,
             ti_rnd, ti_res>>

cd_vars == <<cd_pc, cd_transforms, cd_us, cd_x>>

cl_vars == <<cl_pc, cl_in, cl_graph, d_loss, g_loss>>

vars == <<ti_vars, cd_vars, cl_vars>>

----------------------------------------------------------------------------
\* Bounds of the model.
MaxDim == 2      \* image height and width range over 1..MaxDim
MaxTarget == 2   \* target height and width range over 1..MaxTarget
MaxSeed == 2     \* seeds are None, 1..MaxSeed

Channels == {1, 3, 4}
Shapes == {<<h, w, c>> : h \in 1..MaxDim, w \in 1..MaxDim, c \in Channels}
Targets == {<<h, w, c>> : h \in 1..MaxTarget, w \in 1..MaxTarget, c \in Channels}
Seeds == {<<>>} \cup {<<n>> : n \in 1..MaxSeed}
CropMethods == {"distorted", "random", "middle", "none", "center", "Random", ""}
\* Draws of tf.random.uniform([..], 0, 1), in tenths: u in [0, 1).
Uniform == {0, 5, 9}

Min(a, b) == IF a <= b THEN a ELSE b

\* A graph operation the call builds, with the arguments that matter.
Op(name, args) == [name |-> name, args |-> args]

NoDraw == [box |-> <<0, 0, 0, 0>>, u |-> <<0, 0>>]

\* The boxes tf.image.sample_distorted_bounding_box can return for an image:
\* <<begin_y, begin_x, height, width>>, non-empty and inside the image.
Boxes(image) ==
  {b \in (0..(image[1] - 1)) \X (0..(image[2] - 1)) \X (1..image[1]) \X (1..image[2]) :
     b[1] + b[3] <= image[1] /\ b[2] + b[4] <= image[2]}

\* The random draws a call with this crop method makes.  "distorted" draws a
\* bounding box; "random" draws tf.random.uniform([2], 0, 1); the other
\* methods draw nothing.
Draws(image, crop_method) ==
  IF crop_method = "distorted"
  THEN {[box |-> b, u |-> <<0, 0>>] : b \in Boxes(image)}
  ELSE IF crop_method = "random"
  THEN {[box |-> <<0, 0, 0, 0>>, u |-> <<u1, u2>>] : u1 \in Uniform, u2 \in Uniform}
  ELSE {NoDraw}

\* tf.image.resize_images(image, [th, tw], method=AREA): the static shape of
\* the result keeps the channel dimension of its input.
resize_images(shape, size) == <<size[1], size[2], shape[3]>>

\* The outcome of the tail of transform_image (lines 111-115) on a cropped
\* image whose static channel dimension is static_c; ok_at_runtime tells
\* whether the crop before it can run (tf.slice inside the image).
\* image.set_shape(target_image_shape) raises ValueError when the static
\* shape of the resized image is incompatible with target_image_shape.
finish(static_c, ok_at_runtime, target_image_shape, ops, gs) ==
  LET resized == resize_images(<<0, 0, static_c>>,
                               <<target_image_shape[1], target_image_shape[2]>>)
      ops2 == Append(ops, Op("resize_images",
                 <<<<target_image_shape[1], target_image_shape[2]>>>>))
  IN IF resized[3] # target_image_shape[3]
     THEN [status |-> "ValueError", shape |-> <<>>, ops |-> ops2, graph_seed |-> gs]
     ELSE IF ~ok_at_runtime
     THEN [status |-> "InvalidArgumentError", shape |-> <<>>, ops |-> ops2,
           graph_seed |-> gs]
     ELSE [status |-> "ok", shape |-> target_image_shape, ops |-> ops2,
           graph_seed |-> gs]

\* The last test of the crop-method chain (line 109), reached when the method
\* is none of "distorted", "random", "middle": every method but "none" raises.
unsupported_falls_through(crop_method) == FALSE

unsupported(crop_method) == crop_method # "none"

\* transform_image(image, target_image_shape, crop_method, seed), lines 63-115.
\* gs is the graph-level seed when the call starts, rnd the call's draws.
\* The result records the status (ok or the exception), the static shape of
\* the returned image (<<>> when none is returned), the operations built in
\* order, and the graph-level seed when the call ends.
transform_image(image, target_image_shape, crop_method, seed, gs, rnd) ==
  LET h == image[1]
      w == image[2]
      size == Min(h, w)
  IN
  IF crop_method = "distorted" THEN
    \* slice(image, begin, size) with size = [bh, bw, -1]; the static depth
    \* is lost and restored by set_shape([None, None, target_image_shape[-1]]).
    finish(target_image_shape[3], TRUE, target_image_shape,
           << Op("sample_distorted_bounding_box", <<image, seed>>),
              Op("slice", << <<rnd.box[1], rnd.box[2], 0>>,
                             <<rnd.box[3], rnd.box[4], -1>> >>) >>,
           gs)
  ELSE IF crop_method = "random" THEN
    LET begin == << ((h - size) * rnd.u[1]) \div 10,
                    ((w - size) * rnd.u[2]) \div 10, 0 >>
    IN finish(3, image[3] >= 3, target_image_shape,
              << Op("set_random_seed", <<seed>>),
                 Op("random_uniform", << <<2>> >>),
                 Op("slice", <<begin, <<size, size, 3>> >>) >>,
              seed)
  ELSE IF crop_method = "middle" THEN
    LET begin == << (h - size) \div 2, (w - size) \div 2, 0 >>
    IN finish(3, image[3] >= 3, target_image_shape,
              << Op("slice", <<begin, <<size, size, 3>> >>) >>,
              gs)
  ELSE IF unsupported(crop_method) THEN
    [status |-> "ValueError", shape |-> <<>>, ops |-> <<>>, graph_seed |-> gs]
  ELSE
    finish(image[3], TRUE, target_image_shape, <<>>, gs)

NoResult == [status |-> "none", shape |-> <<>>, ops |-> <<>>, graph_seed |-> <<>>]

\* No call of transform_image is in progress.
TIIdle ==
  /\ ti_pc = "idle"
  /\ ti_image = <<1, 1, 3>>
  /\ ti_target = <<1, 1, 3>>
  /\ ti_method = "none"
  /\ ti_seed = <<>>
  /\ ti_rnd = NoDraw
  /\ ti_res = NoResult

\* One call of transform_image, from the call to its return or raise.
DoTransform(image, target, crop_method, seed, rnd) ==
  LET r == transform_image(image, target, crop_method, seed, graph_seed, rnd)
  IN /\ ti_image' = image
     /\ ti_target' = target
     /\ ti_method' = crop_method
     /\ ti_seed' = seed
     /\ ti_rnd' = rnd
     /\ ti_res' = r
     /\ graph_seed' = r.graph_seed
     /\ ti_pc' = IF r.status = "ok" THEN "returned" ELSE "raised"

TransformImage ==
  /\ ti_pc = "idle"
  /\ \E image \in Shapes, target \in Targets, m \in CropMethods, seed \in Seeds :
       \E rnd \in Draws(image, m) :
         DoTransform(image, target, m, seed, rnd)

\* random_crop_and_resize(x, crop_method), lines 117-121: every image of the
\* batch goes through transform_image with target shape [h, w, c] of the batch
\* itself and no seed.  One image of the batch is followed.
random_crop_and_resize ==
  /\ ti_pc = "idle"
  /\ \E x \in Shapes, m \in CropMethods :
       \E rnd \in Draws(x, m) :
         DoTransform(x, x, m, <<>>, rnd)

\* The caller takes the result (or handles the exception) and the call's
\* frame is gone; the graph-level seed stays as the call left it.
TIDone ==
  /\ ti_pc \in {"returned", "raised"}
  /\ ti_pc' = "idle"
  /\ ti_image' = <<1, 1, 3>>
  /\ ti_target' = <<1, 1, 3>>
  /\ ti_method' = "none"
  /\ ti_seed' = <<>>
  /\ ti_rnd' = NoDraw
  /\ ti_res' = NoResult
  /\ UNCHANGED graph_seed

----------------------------------------------------------------------------
\* The transform dispatchers: call, call_dynamic, call_maybe, augment.
\*
\* A transform function is [kind |-> "callable", id |-> n].  A tensor x is
\* the sequence of the ids of the functions applied to the input so far, so
\* that two results are equal only when the same functions were applied in
\* the same order.  A Python list is [kind |-> "list", items |-> <<...>>]:
\* as `transforms` its items are entries, as an entry [prob, f] its items are
\* the probability (in tenths) and f.  A tuple of functions, which call()
\* iterates, is [kind |-> "tuple", items |-> <<...>>].

MaxLen == 2   \* the top-level transforms list has at most MaxLen entries

Callable(id) == [kind |-> "callable", id |-> id]
TupleOf(fs) == [kind |-> "tuple", items |-> fs]
List(items) == [kind |-> "list", items |-> items]

Callables == {Callable(1), Callable(2)}
Probs == {-5, 0, 5, 10, 15}

\* Lists of entries that appear as the f of an entry [prob, f].
NestedLists ==
  { List(<<>>),
    List(<<Callable(1), List(<<5, Callable(2)>>)>>),
    List(<<List(<<0, Callable(1)>>), Callable(2)>>),
    List(<<List(<<5, Callable(2)>>), List(<<10, Callable(1)>>)>>) }

Fs == Callables \cup {TupleOf(<<Callable(1), Callable(2)>>)} \cup NestedLists

EntrySet == Callables \cup {List(<<prob, f>>) : prob \in Probs, f \in Fs}

SeqsUpTo(S, n) == UNION {[1..k -> S] : k \in 0..n}

TransformsSet ==
  Callables \cup {List(items) : items \in SeqsUpTo(EntrySet, MaxLen)}

\* isinstance(v, list)
isinstance_list(v) == v.kind = "list"

\* call(f, x), lines 269-275.
RECURSIVE call_each(_, _, _)
call_each(fs, i, x) ==
  IF i > Len(fs) THEN x ELSE call_each(fs, i + 1, Append(x, fs[i].id))

call(f, x) ==
  IF f.kind = "callable" THEN Append(x, f.id) ELSE call_each(f.items, 1, x)

\* tf.less_equal(u, prob), line 295.
less(u, prob) == u < prob

less_equal(u, prob) == u <= prob

\* prob, f = [1.0, l] if not isinstance(l, list) else l   (line 281)
entry_prob(l) == IF ~isinstance_list(l) THEN 10 ELSE l.items[1]
entry_f(l) == IF ~isinstance_list(l) THEN l ELSE l.items[2]

\* if not isinstance(transforms, list): transforms = [transforms]  (278-279)
as_list(transforms) ==
  IF ~isinstance_list(transforms) THEN <<transforms>> ELSE transforms.items

\* call_dynamic(x, transforms), lines 277-291, and call_maybe(prob, f, x),
\* lines 293-297.  `path` is the place of the running call_dynamic in the
\* transforms structure (the entry indices from the top) and us[p] the value
\* of the tf.random.uniform operation that the call_maybe of the entry at
\* place p builds.  call_dynamic_from is the loop from entry i on.
RECURSIVE call_dynamic_from(_, _, _, _, _)
RECURSIVE call_maybe(_, _, _, _, _)

call_dynamic(x, transforms, path, us) ==
  call_dynamic_from(x, as_list(transforms), 1, path, us)

call_dynamic_from(x, ts, i, path, us) ==
  IF i > Len(ts) THEN x
  ELSE
    LET l == ts[i]
        prob == entry_prob(l)
        f == entry_f(l)
        here == Append(path, i)
        x2 == IF prob >= 10
              THEN IF isinstance_list(f)
                   THEN call_dynamic(x, f, here, us)
                   ELSE call(f, x)
              ELSE IF prob <= 0
              THEN x
              ELSE call_maybe(prob, f, x, here, us)
    IN call_dynamic_from(x2, ts, i + 1, path, us)

call_maybe(prob, f, x, path, us) ==
  IF less_equal(us[path], prob)
  THEN call_dynamic(x, f, path, us)
  ELSE x

\* The places of the call_maybe operations that call_dynamic builds for
\* `transforms` (tf.cond builds both branches, so the operations nested in an
\* entry are built whether or not the entry is selected at run time).
RECURSIVE Sites(_, _)
Sites(transforms, path) ==
  LET ts == as_list(transforms)
  IN UNION { LET l == ts[i]
                 prob == entry_prob(l)
                 f == entry_f(l)
                 here == Append(path, i)
             IN IF prob >= 10
                THEN IF isinstance_list(f) THEN Sites(f, here) ELSE {}
                ELSE IF prob <= 0
                THEN {}
                ELSE {here} \cup (IF isinstance_list(f) THEN Sites(f, here) ELSE {})
           : i \in 1..Len(ts) }

CDIdle ==
  /\ cd_pc = "idle"
  /\ cd_transforms = List(<<>>)
  /\ cd_us = <<>>
  /\ cd_x = <<>>

\* augment(x, transforms, evaluate=call_dynamic), lines 305-307: one call of
\* call_dynamic on an input tensor, with the draws of its call_maybe
\* operations.
augment ==
  /\ cd_pc = "idle"
  /\ \E transforms \in TransformsSet :
       \E us \in [Sites(transforms, <<>>) -> Uniform] :
         /\ cd_transforms' = transforms
         /\ cd_us' = us
         /\ cd_x' = call_dynamic(<<>>, transforms, <<>>, us)
         /\ cd_pc' = "returned"
  /\ UNCHANGED <<ti_vars, cl_vars>>

\* The caller takes the result.
CDDone ==
  /\ cd_pc = "returned"
  /\ cd_pc' = "idle"
  /\ cd_transforms' = List(<<>>)
  /\ cd_us' = <<>>
  /\ cd_x' = <<>>
  /\ UNCHANGED <<ti_vars, cl_vars>>

----------------------------------------------------------------------------
\* CLGAN.create_loss, lines 344-427.
\*
\* A batch is the sequence of its rows.  An image row is a record: src, idx
\* and aug say which sample the row is (real or generated, its index in the
\* batch, augmented or not) and val is its content.  Reals are modelled in
\* integer fixed point; exponentials and logarithms are taken to base 2,
\* which rescales the contrastive loss by a constant factor.

MaxBs == 2    \* the batch size per core ranges over 1..MaxBs

Pixels == {0, 1}

Row(src, idx, aug, val) == [src |-> src, idx |-> idx, aug |-> aug, val |-> val]
RowId(r) == [src |-> r.src, idx |-> r.idx, aug |-> r.aug]

\* features["images"] / features["generated"] with the given contents.
Batch(src, vals) == [i \in 1..Len(vals) |-> Row(src, i, FALSE, vals[i])]

\* augment(images): the transforms work on every image of the batch on its
\* own, so row i of the result is the augmented view of row i; its content
\* is whatever the random transforms produced (new_vals).
augmented(x, new_vals) ==
  [i \in 1..Len(x) |-> Row(x[i].src, x[i].idx, TRUE, new_vals[i])]

\* The discriminators tried: per image content, the output d (in tenths),
\* the logit and the (1-dimensional) latent.
Discriminators ==
  { [d |-> [v \in Pixels |-> IF v = 0 THEN 3 ELSE 7],
     logit |-> [v \in Pixels |-> IF v = 0 THEN -1 ELSE 1],
     latent |-> [v \in Pixels |-> IF v = 0 THEN -1 ELSE 1]],
    [d |-> [v \in Pixels |-> IF v = 0 THEN 9 ELSE 5],
     logit |-> [v \in Pixels |-> IF v = 0 THEN 2 ELSE 0],
     latent |-> [v \in Pixels |-> IF v = 0 THEN 2 ELSE -1]] }

\* self.discriminator(x=all_images, ...), lines 392-393: row k of d_all,
\* d_all_logits and d_latents is the output for row k of all_images.
discriminator(disc, x) ==
  [ d_all |-> [k \in 1..Len(x) |-> disc.d[x[k].val]],
    d_all_logits |-> [k \in 1..Len(x) |-> disc.logit[x[k].val]],
    d_latents |-> [k \in 1..Len(x) |-> [of |-> RowId(x[k]), z |-> disc.latent[x[k].val]]] ]

\* The sum and the maximum of the first n elements of q.
RECURSIVE SumTo(_, _)
SumTo(q, n) == IF n = 0 THEN 0 ELSE q[n] + SumTo(q, n - 1)

SumSeq(q) == SumTo(q, Len(q))

reduce_mean(q) == SumSeq(q) \div Len(q)

Max(a, b) == IF a >= b THEN a ELSE b

RECURSIVE MaxTo(_, _)
MaxTo(q, n) == IF n = 1 THEN q[1] ELSE Max(q[n], MaxTo(q, n - 1))

MaxSeq(q) == MaxTo(q, Len(q))

Abs(v) == IF v >= 0 THEN v ELSE -v
relu(v) == IF v >= 0 THEN v ELSE 0

\* tf.nn.leaky_relu (alpha = 0.2), scaled by 5.
leaky_relu(v) == IF v >= 0 THEN 5 * v ELSE v

\* The variables "kernel1" [dim, dim * 4] and "kernel2" [dim * 4, dim] of
\* scope discriminator_z_projection, for dim = 1.
Kernels ==
  { [kernel1 |-> <<1, 1, 1, 1>>, kernel2 |-> <<1, 1, 1, 1>>],
    [kernel1 |-> <<1, -1, 2, 1>>, kernel2 |-> <<-1, 1, -1, -1>>] }

\* CLGAN._latent_projections, lines 334-342, for dim = 1: two matmuls with a
\* leaky_relu between them, then every row divided by its L2 norm.
latent_projections(kernels, latents) ==
  [ k \in 1..Len(latents) |->
      LET hidden == [j \in 1..4 |-> leaky_relu(latents[k].z * kernels.kernel1[j])]
          z_proj == SumSeq([j \in 1..4 |-> hidden[j] * kernels.kernel2[j]])
          norm == Abs(z_proj)
      IN [of |-> latents[k].of, z |-> IF norm = 0 THEN 0 ELSE z_proj \div norm] ]

\* tf.split(t, n) along axis 0.
split(t, n) ==
  LET m == Len(t) \div n
  IN [k \in 1..n |-> SubSeq(t, (k - 1) * m + 1, k * m)]

\* tf.concat([images, generated, aug_images, aug_generated], 0), line 385.
concat_interleaved(images, generated, aug_images, aug_generated) ==
  images \o aug_images \o generated \o aug_generated

concat_all(images, generated, aug_images, aug_generated) ==
  images \o generated \o aug_images \o aug_generated

\* d_real, d_fake, _, _ = tf.split(d_all, 4), lines 397-398.
real_and_last(t) == LET parts == split(t, 4) IN <<parts[1], parts[4]>>

real_and_fake(t) == LET parts == split(t, 4) IN <<parts[1], parts[2]>>

\* sim_labels = np.arange(bs * 2), line 418.
arange(n) == [i \in 1..n |-> i - 1]

\* tf.one_hot(labels, depth): row i has a 1 in column labels[i] (0-based).
one_hot(labels, depth) ==
  [i \in 1..Len(labels) |-> [j \in 1..depth |-> IF j - 1 = labels[i] THEN 1 ELSE 0]]

RECURSIVE Log2(_)
Log2(n) == IF n <= 1 THEN 0 ELSE 1 + Log2(n \div 2)

RECURSIVE Pow2(_)
Pow2(n) == IF n <= 0 THEN 1 ELSE 2 * Pow2(n - 1)

\* tf.nn.softmax of a row of non-positive logits, in units of 1/1024.
exp(v) == 1024 \div Pow2(-v)

normalize(e, total) == [j \in 1..Len(e) |-> (1024 * e[j]) \div total]

softmax(row) ==
  normalize([j \in 1..Len(row) |-> exp(row[j])],
            SumSeq([j \in 1..Len(row) |-> exp(row[j])]))

\* tf.log(p + 1e-10) of a probability in units of 1/1024 (1e-10 is below
\* the resolution and no probability is 0 here).
log(p) == Log2(p) - 10

\* loss_lib.get_losses(d_real, d_fake, d_real_logits, d_fake_logits), lines
\* 401-403: the configured loss function; hinge, wasserstein and
\* least_squares are the ones tried.  Returns d_loss, d_loss_real,
\* d_loss_fake, g_loss.
get_losses(fn, d_real, d_fake, d_real_logits, d_fake_logits) ==
  LET n == Len(d_real)
  IN IF fn = "hinge"
     THEN LET r == reduce_mean([i \in 1..n |-> relu(1 - d_real_logits[i])])
              f == reduce_mean([i \in 1..n |-> relu(1 + d_fake_logits[i])])
          IN <<r + f, r, f, -reduce_mean(d_fake_logits)>>
     ELSE IF fn = "wasserstein"
     THEN LET r == -reduce_mean(d_real_logits)
              f == reduce_mean(d_fake_logits)
          IN <<r + f, r, f, -f>>
     ELSE LET r == reduce_mean([i \in 1..n |-> (d_real[i] - 10) * (d_real[i] - 10)])
              f == reduce_mean([i \in 1..n |-> d_fake[i] * d_fake[i]])
          IN <<(r + f) \div 2, r, f,
               reduce_mean([i \in 1..n |-> (d_fake[i] - 10) * (d_fake[i] - 10)]) \div 2>>

\* penalty_lib.get_penalty_loss(x=images, x_fake=generated, ...,
\* discriminator=self.discriminator), lines 405-407: a value computed from
\* the un-augmented real and fake images and the discriminator.
get_penalty_loss(disc, x, x_fake) ==
  reduce_mean([i \in 1..Len(x) |->
     Abs(disc.logit[x[i].val] - disc.logit[x_fake[i].val])])

\* sims_logits = tf.matmul(z_projs, z_aug_projs, transpose_b=True), line 413.
matmul_transpose_b(a, b) ==
  [i \in 1..Len(a) |-> [j \in 1..Len(b) |-> a[i].z * b[j].z]]

\* sims_logits - tf.reshape(tf.reduce_max(sims_logits, 1), [-1, 1]), 414-415.
subtract(row, mx) == [j \in 1..Len(row) |-> row[j] - mx]

subtract_row_max(m) == [i \in 1..Len(m) |-> subtract(m[i], MaxSeq(m[i]))]

\* - tf.reduce_mean(tf.reduce_sum(sims_onehot * tf.log(sims_probs + 1e-10), 1)),
\* lines 421-422.
cross_entropy(sims_onehot, sims_probs) ==
  -reduce_mean([i \in 1..Len(sims_probs) |->
      SumSeq([j \in 1..Len(sims_probs[i]) |->
                sims_onehot[i][j] * log(sims_probs[i][j])])])

\* self.d_loss += weight * loss, lines 408 and 424.
add_to_d_loss(loss_so_far, weight, loss) == loss_so_far + weight * loss

NoGraph == [ all_images |-> <<>>, z_projs |-> <<>>, z_aug_projs |-> <<>>,
             sim_labels |-> <<>>, sims_onehot |-> <<>>,
             image_summaries |-> <<>>,
             penalty_loss |-> 0, c_real_loss |-> 0 ]

NoInput == [ images |-> <<>>, generated |-> <<>>, aug_images |-> <<>>,
             aug_generated |-> <<>>, disc |-> <<>>, kernels |-> <<>>,
             loss_fn |-> "", lambda |-> 0, weight_contrastive_loss_d |-> 0 ]

\* The configurations tried: the loss function, self._lambda and
\* self._weight_contrastive_loss_d (10.0 by default).
Hyperparameters ==
  { [loss_fn |-> "hinge", lambda |-> 0, weight_contrastive_loss_d |-> 10],
    [loss_fn |-> "wasserstein", lambda |-> 1, weight_contrastive_loss_d |-> 1],
    [loss_fn |-> "least_squares", lambda |-> 2, weight_contrastive_loss_d |-> 10] }

CLIdle ==
  /\ cl_pc = "idle"
  /\ cl_in = NoInput
  /\ cl_graph = NoGraph
  /\ d_loss = <<>>
  /\ g_loss = <<>>

\* One call of create_loss (lines 363-427) on a batch of bs real and bs
\* generated images, for an unconditional model (self.conditional false, so
\* no labels go to the discriminator): every tensor is built once, in the
\* order of the code.  Both image summaries are given aug_images (lines 378
\* and 382); the scalar summaries are c_real_loss and penalty_loss.
create_loss ==
  /\ cl_pc = "idle"
  /\ \E bs \in 1..MaxBs :
     \E iv \in [1..bs -> Pixels], gv \in [1..bs -> Pixels],
        ar \in [1..bs -> Pixels], af \in [1..bs -> Pixels],
        disc \in Discriminators, kernels \in Kernels, hp \in Hyperparameters :
     \E images \in {Batch("real", iv)}, generated \in {Batch("fake", gv)} :
     \E aug_images \in {augmented(images, ar)},
        aug_generated \in {augmented(generated, af)} :
     \E all_images \in {concat_all(images, generated, aug_images, aug_generated)} :
     \E out \in {discriminator(disc, all_images)} :
     \E z \in {split(latent_projections(kernels, out.d_latents), 4)},
        d \in {real_and_fake(out.d_all)},
        d_logits \in {real_and_fake(out.d_all_logits)} :
     \E losses \in {get_losses(hp.loss_fn, d[1], d[2], d_logits[1], d_logits[2])},
        penalty_loss \in {get_penalty_loss(disc, images, generated)} :
     \E z_projs \in {z[1] \o z[2]}, z_aug_projs \in {z[3] \o z[4]} :
     \E sims_logits \in {subtract_row_max(matmul_transpose_b(z_projs, z_aug_projs))} :
     \E sims_probs \in {[i \in 1..(2 * bs) |-> softmax(sims_logits[i])]},
        sim_labels \in {arange(bs * 2)} :
     \E sims_onehot \in {one_hot(sim_labels, bs * 2)} :
     \E c_real_loss \in {cross_entropy(sims_onehot, sims_probs)} :
       /\ cl_in' = [ images |-> images, generated |-> generated,
                     aug_images |-> aug_images, aug_generated |-> aug_generated,
                     disc |-> disc, kernels |-> kernels, loss_fn |-> hp.loss_fn,
                     lambda |-> hp.lambda,
                     weight_contrastive_loss_d |-> hp.weight_contrastive_loss_d ]
       /\ cl_graph' = [ all_images |-> all_images,
                        z_projs |-> z_projs,
                        z_aug_projs |-> z_aug_projs,
                        sim_labels |-> sim_labels,
                        sims_onehot |-> sims_onehot,
                        image_summaries |->
                          [ real_images_aug |-> aug_images,
                            fake_images_aug |-> aug_images ],
                        penalty_loss |-> penalty_loss,
                        c_real_loss |-> c_real_loss ]
       /\ g_loss' = <<losses[4]>>
       /\ d_loss' = <<add_to_d_loss(
                        add_to_d_loss(losses[1], hp.lambda, penalty_loss),
                        c_real_loss, hp.weight_contrastive_loss_d)>>
       /\ cl_pc' = "returned"
  /\ UNCHANGED <<ti_vars, cd_vars>>

\* The model function takes the losses; the next step builds a new graph.
CLDone ==
  /\ cl_pc = "returned"
  /\ cl_pc' = "idle"
  /\ cl_in' = NoInput
  /\ cl_graph' = NoGraph
  /\ d_loss' = <<>>
  /\ g_loss' = <<>>
  /\ UNCHANGED <<ti_vars, cd_vars>>


----------------------------------------------------------------------------
\* The specifications.

InitTI == TIIdle /\ graph_seed \in Seeds /\ CDIdle /\ CLIdle

NextTI ==
  \/ TransformImage /\ UNCHANGED <<cd_vars, cl_vars>>
  \/ random_crop_and_resize /\ UNCHANGED <<cd_vars, cl_vars>>
  \/ TIDone /\ UNCHANGED <<cd_vars, cl_vars>>

SpecTI == InitTI /\ [][NextTI]_vars

InitCD == TIIdle /\ graph_seed = <<>> /\ CDIdle /\ CLIdle

NextCD ==
  \/ augment
  \/ CDDone

SpecCD == InitCD /\ [][NextCD]_vars

InitCL == TIIdle /\ graph_seed = <<>> /\ CDIdle /\ CLIdle

NextCL ==
  \/ create_loss
  \/ CLDone

SpecCL == InitCL /\ [][NextCL]_vars

----------------------------------------------------------------------------
\* Properties of transform_image.

Supported == {"distorted", "random", "middle", "none"}

HasOp(ops, name) == \E i \in 1..Len(ops) : ops[i].name = name

\* C1: transform_image accepts exactly the crop methods "distorted", "random",
\* "middle" and "none".  A call with any other crop method raises ValueError
\* with no operation built (so before any resize) and returns no image; a
\* call with a supported method reaches the resize; a call with "none" builds
\* no crop (no slice), only the resize.
C1_CropMethods ==
  ti_pc # "idle" =>
    /\ ti_method \notin Supported =>
          /\ ti_pc = "raised"
          /\ ti_res.status = "ValueError"
          /\ ti_res.ops = <<>>
          /\ ti_res.shape = <<>>
    /\ ti_method \in Supported => HasOp(ti_res.ops, "resize_images")
    /\ ti_method = "none" =>
          /\ ~HasOp(ti_res.ops, "slice")
          /\ Len(ti_res.ops) = 1
          /\ ti_res.ops[1].name = "resize_images"

\* A call with the unsupported crop method "center" has raised ValueError.
C1_Witness ==
  /\ ti_pc = "raised"
  /\ ti_method = "center"
  /\ ti_res.status = "ValueError"

\* C2: for every supported crop method and every image [h, w, c] with
\* h, w >= 1 (c the channel count of target_image_shape, also when it is not
\* 3), transform_image returns an image whose shape is target_image_shape.
C2_ReturnsTargetShape ==
  (ti_pc # "idle" /\ ti_method \in Supported /\ ti_image[3] = ti_target[3]) =>
    /\ ti_pc = "returned"
    /\ ti_res.status = "ok"
    /\ ti_res.shape = ti_target

\* C3: the seed is only used for crop_method = "distorted": for "random",
\* "middle" and "none" a call with any other seed builds the same operations
\* with the same arguments, and no operation is given the seed.
C3_SeedOnlyForDistorted ==
  (ti_pc # "idle" /\ ti_method \in {"random", "middle", "none"}) =>
    /\ \A s \in Seeds :
         transform_image(ti_image, ti_target, ti_method, s, graph_seed, ti_rnd).ops
           = ti_res.ops
    /\ ~HasOp(ti_res.ops, "set_random_seed")

\* C4: the transforms are pure: no step of a transform changes the
\* process-wide (graph-level) random seed.
C4_NoSeedChange == [][graph_seed' = graph_seed]_vars

----------------------------------------------------------------------------
\* Properties of call_dynamic.

\* The entries of a transforms value: a non-list value is a one-entry list.
C7_Entries(transforms) ==
  IF transforms.kind = "list" THEN transforms.items ELSE <<transforms>>

\* The probability of an entry, in tenths: an entry that is not a list has
\* probability 1.0.
C7_Prob(l) == IF l.kind = "list" THEN l.items[1] ELSE 10

C7_F(l) == IF l.kind = "list" THEN l.items[2] ELSE l

\* An entry is selected when its probability is >= 1.0, or is strictly
\* between 0 and 1 and the draw u of its call_maybe satisfies u <= prob.
C7_Selected(l, place, us) ==
  \/ C7_Prob(l) >= 10
  \/ (C7_Prob(l) > 0 /\ C7_Prob(l) < 10 /\ us[place] <= C7_Prob(l))

\* The functions that the in-order composition of the selected entries
\* applies: the entries before the last one, then the last one if selected.
RECURSIVE C7_Composition(_, _, _)
C7_Effect(f, place, us) ==
  IF f.kind = "callable" THEN <<f.id>>
  ELSE IF f.kind = "tuple" THEN [i \in 1..Len(f.items) |-> f.items[i].id]
  ELSE C7_Composition(f.items, place, us)

C7_Composition(entries, path, us) ==
  IF entries = <<>> THEN <<>>
  ELSE LET n == Len(entries)
           place == Append(path, n)
       IN C7_Composition(SubSeq(entries, 1, n - 1), path, us)
            \o (IF C7_Selected(entries[n], place, us)
                THEN C7_Effect(C7_F(entries[n]), place, us)
                ELSE <<>>)

\* C7: call_dynamic(x, transforms) returns x with exactly the selected
\* entries applied, in list order: an entry with prob >= 1.0 always, one
\* with prob <= 0.0 never, one with 0 < prob < 1 exactly when its uniform
\* draw u satisfies u <= prob.
C7_InOrderComposition ==
  cd_pc = "returned" =>
    cd_x = C7_Composition(C7_Entries(cd_transforms), <<>>, cd_us)

\* An entry taken on u = prob, followed by an entry its draw leaves out.
C7_Witness ==
  /\ cd_pc = "returned"
  /\ cd_transforms = List(<<List(<<5, Callable(2)>>), List(<<5, Callable(1)>>)>>)
  /\ cd_us[<<1>>] = 5
  /\ cd_us[<<2>>] = 9
  /\ cd_x = <<2>>

----------------------------------------------------------------------------
\* Properties of create_loss.

\* The discriminator outputs and logits of a batch of images.
C5_D(x) == [i \in 1..Len(x) |-> cl_in.disc.d[x[i].val]]
C5_Logits(x) == [i \in 1..Len(x) |-> cl_in.disc.logit[x[i].val]]

\* What get_losses computes from the discriminator outputs of the
\* un-augmented real and fake images.
C5_Base ==
  get_losses(cl_in.loss_fn, C5_D(cl_in.images), C5_D(cl_in.generated),
             C5_Logits(cl_in.images), C5_Logits(cl_in.generated))

\* C5: create_loss sets both d_loss and g_loss; g_loss is the generator loss
\* of get_losses on the discriminator outputs of the un-augmented real and
\* fake images, and d_loss is the discriminator loss of the same call plus
\* lambda times the penalty plus weight_contrastive_loss_d times the
\* contrastive loss.  Nothing else enters either loss.
C5_Losses ==
  cl_pc = "returned" =>
    /\ g_loss = <<C5_Base[4]>>
    /\ d_loss = <<C5_Base[1] + cl_in.lambda * cl_graph.penalty_loss
                   + cl_in.weight_contrastive_loss_d * cl_graph.c_real_loss>>

\* A call where the penalty and the contrastive loss are not zero and the
\* augmented images score differently from the un-augmented ones.
C5_Witness ==
  /\ cl_pc = "returned"
  /\ cl_in.lambda > 0
  /\ cl_graph.penalty_loss > 0
  /\ cl_graph.c_real_loss > 0
  /\ C5_Logits(cl_in.aug_generated) # C5_Logits(cl_in.generated)
  /\ C5_Logits(cl_in.aug_images) # C5_Logits(cl_in.images)
  /\ d_loss # <<C5_Base[1]>>

\* The sample that row i (1-based) of the similarity matrix stands for: the
\* real images first, then the generated ones.
C6_Sample(i, bs) ==
  IF i <= bs THEN [src |-> "real", idx |-> i] ELSE [src |-> "fake", idx |-> i - bs]

C6_SampleOf(id) == [src |-> id.src, idx |-> id.idx]

\* C6: with batch size bs, for every row i of the similarity matrix the
\* one-hot target is column i; row i is the projection of un-augmented
\* sample i, column i the projection of the augmented view of the same
\* sample, and every other column is a different sample.  (Rows and columns
\* count from 1 here and labels from 0, as np.arange does.)
C6_Pairing ==
  cl_pc = "returned" =>
    LET bs == Len(cl_in.images)
        n == 2 * bs
    IN /\ Len(cl_graph.z_projs) = n
       /\ Len(cl_graph.z_aug_projs) = n
       /\ Len(cl_graph.sim_labels) = n
       /\ \A i \in 1..n :
            /\ cl_graph.sim_labels[i] = i - 1
            /\ \A j \in 1..n : cl_graph.sims_onehot[i][j] = (IF j = i THEN 1 ELSE 0)
            /\ cl_graph.z_projs[i].of
                 = [src |-> C6_Sample(i, bs).src, idx |-> C6_Sample(i, bs).idx,
                    aug |-> FALSE]
            /\ cl_graph.z_aug_projs[i].of
                 = [src |-> C6_Sample(i, bs).src, idx |-> C6_Sample(i, bs).idx,
                    aug |-> TRUE]
            /\ \A j \in 1..n :
                 j # i => C6_SampleOf(cl_graph.z_aug_projs[j].of) # C6_Sample(i, bs)

\* A call with two real and two generated images: row 3 is the first
\* generated image, column 3 its augmented view.
C6_Witness ==
  /\ cl_pc = "returned"
  /\ Len(cl_in.images) = 2
  /\ cl_graph.z_projs[3].of = [src |-> "fake", idx |-> 1, aug |-> FALSE]
  /\ cl_graph.z_aug_projs[3].of = [src |-> "fake", idx |-> 1, aug |-> TRUE]
  /\ cl_graph.sim_labels[3] = 2

====
